---- MODULE Spec2Model ----
(***************************************************************************)
(* The batch data-loading pipeline of app/data_loader.py                   *)
(* (DubaiDataLoader): CSV validation, cleaning, foreign-key resolution,    *)
(* delete-then-insert load of sectors, communities and population_data,    *)
(* index creation and post-load verification, run against a PostgreSQL     *)
(* store through one SQLAlchemy connection per phase.                      *)
(*                                                                         *)
(* A CSV field is a sequence of tokens; the empty sequence is an empty     *)
(* field, which pandas reads as NaN.                                       *)
(***************************************************************************)
EXTENDS Integers, Sequences, FiniteSets, TLC

\* ------------------------------------------------------------------ bounds
\* Longest sectors.csv / communities.csv / population.csv of the small inputs.
MaxRows == 2
\* Pipeline executions (load_all_data calls) against the same store.
MaxRuns == 2
\* Store failures the environment may inject (lost connection, failed statement).
MaxFaults == 1
\* Largest max_retries tried for create_engine_with_retry, beside its default.
MaxRetries == 2
\* Requests served by the REST process.
MaxRequests == 2

\* ------------------------------------------------------- program constants
batch_size == 500

\* def create_engine_with_retry(max_retries=10, delay=3)
max_retries == 10

delay == 3

None == 0

NaN == << >>

required_files == << "sectors.csv", "communities.csv", "population.csv" >>

Tables == { "sectors", "communities", "population_data" }

indexes ==
    << [name |-> "idx_population_community", table |-> "population_data"],
       [name |-> "idx_population_year",      table |-> "population_data"],
       [name |-> "idx_communities_sector",   table |-> "communities"],
       [name |-> "idx_communities_code",     table |-> "communities"] >>

\* The banner label of the extracts, and the two markers load_sectors filters on.
BannerLabel == << "Sector", "&", "Community" >>

DistributionMarker == << "Distribution" >>

SectorMarkers == { BannerLabel, DistributionMarker }

Runs == 1 .. MaxRuns

\* ------------------------------------------------------------ pure helpers
Range(s) == { s[i] : i \in DOMAIN s }

Min(a, b) == IF a < b THEN a ELSE b

\* pandas Series.str.contains for one literal alternative: pat occurs in s.
Contains(s, pat) ==
    \E i \in 1 .. (Len(s) - Len(pat) + 1) : SubSeq(s, i, i + Len(pat) - 1) = pat

\* (a filter that drops only the rows whose name is a marker, not those that
\* contain one)
ContainsMarker_exact(s) == s \in SectorMarkers

\* str.contains('Sector & Community|Distribution', na=False)
ContainsMarker(s) == \E pat \in SectorMarkers : Contains(s, pat)

\* DataFrame.dropna(subset=...): keep the rows with no NaN in the subset.
dropna(df, subset) == SelectSeq(df, LAMBDA row : \A c \in subset : row[c] # NaN)

\* (a lookup that answers a missing key with the first id)
Get_default(mapping, key) == IF key \in DOMAIN mapping THEN mapping[key] ELSE 1

\* dict.get(key): the value, or None.
Get(mapping, key) == IF key \in DOMAIN mapping THEN mapping[key] ELSE None

\* mapping[key] = value
Put(mapping, key, value) ==
    [k \in DOMAIN mapping \cup {key} |-> IF k = key THEN value ELSE mapping[k]]

EmptyMapping == [k \in {} |-> None]

\* df.iloc[i : i + batch_size] (i is 0-based)
Batch(df, i) == SubSeq(df, i + 1, Min(i + batch_size, Len(df)))

\* The value is accepted by a numeric column of the store.
NumericTokens == { "1000", "5000", "2020", "2021", "200" }

IsNumeric(field) == Len(field) = 1 /\ field[1] \in NumericTokens

\* ------------------------------------------------------------------- state
VARIABLES
    files_present,   \* the files that exist under data_dir
    csv,             \* file name -> its data rows
    fk_cascade,      \* the schema's foreign keys are declared ON DELETE CASCADE
    unique_keys,     \* the schema declares sectors.name_en and communities.code UNIQUE
    boot,            \* the execution of create_engine_with_retry
    api,             \* the REST process: its globals and the request it is serving
    tables_present,  \* the tables of schema dubai that exist
    db,              \* table -> committed rows
    db_indexes,      \* committed secondary indexes
    next_id,         \* table -> next value of its id sequence
    faults,          \* store failures injected so far
    concurrent,      \* runs may overlap (otherwise a run starts after the previous one ended)
    run              \* run -> the state of that load_all_data execution

vars == << files_present, csv, fk_cascade, unique_keys, tables_present, boot, api, db,
           db_indexes,
           next_id, faults, concurrent, run >>

envVars == << files_present, csv, fk_cascade, unique_keys, tables_present, concurrent,
             boot, api >>

\* ------------------------------------------------------------- run records
ClosedConn == [open |-> FALSE, aborted |-> FALSE, pending |-> {}, pending_idx |-> {}]

OpenConn == [open |-> TRUE, aborted |-> FALSE, pending |-> {}, pending_idx |-> {}]

NoError == [type |-> "none", missing_files |-> << >>, raised_in |-> "-"]

NoReport ==
    [sectors |-> 0, communities |-> 0, population_records |-> 0,
     year_distribution |-> EmptyMapping]

IdleRun ==
    [phase |-> "Idle", step |-> "-", df |-> << >>,
     sector_mapping |-> EmptyMapping, community_mapping |-> EmptyMapping,
     conn |-> ClosedConn,
     i |-> 0, j |-> 0, batch_success |-> 0,
     successful_records |-> 0, total_records |-> 0,
     population_count |-> 0, idx |-> 0,
     warnings |-> 0, skipped |-> 0, insert_failures |-> 0, index_failures |-> 0,
     batches |-> << >>,
     error |-> NoError, verified |-> FALSE, verification |-> NoReport,
     summary |-> [loaded |-> 0, attempted |-> 0],
     returned |-> FALSE,
     \* the process: it has exited, with this code
     exited |-> FALSE, exit_code |-> 0,
     \* history: what the run did to the store
     mutations |-> 0, entered |-> << >>, inserted |-> {}]

Phases ==
    << "ValidatingInputs", "LoadingSectors", "LoadingCommunities",
       "LoadingPopulation", "BuildingIndexes", "Verifying", "Done" >>

\* Entering a phase.
Enter(rr, phase, step) ==
    [rr EXCEPT !.phase = phase, !.step = step, !.entered = Append(@, phase)]

\* (an exception that leaves the connection and its transaction open)
Raise_leak(rr, type, missing) ==
    [rr EXCEPT !.phase = "Failed", !.step = "-",
               !.df = << >>, !.i = 0, !.j = 0, !.idx = 0, !.batch_success = 0,
               !.successful_records = 0, !.total_records = 0,
               !.sector_mapping = EmptyMapping, !.community_mapping = EmptyMapping,
               !.error = [type |-> type, missing_files |-> missing,
                          raised_in |-> rr.phase]]

\* An exception leaves the phase function: the with-block closes the connection
\* (rolling back what is pending) and load_all_data logs and re-raises it.
Raise(rr, type, missing) ==
    [rr EXCEPT !.phase = "Failed", !.step = "-", !.conn = ClosedConn,
               !.df = << >>, !.i = 0, !.j = 0, !.idx = 0, !.batch_success = 0,
               !.successful_records = 0, !.total_records = 0,
               !.sector_mapping = EmptyMapping, !.community_mapping = EmptyMapping,
               !.error = [type |-> type, missing_files |-> missing,
                          raised_in |-> rr.phase]]

CanFault == faults < MaxFaults

\* A call outside any try: it succeeds or raises.
FatalOutcomes == {"ok"} \cup (IF CanFault THEN {"error"} ELSE {})

\* A statement inside a try: it succeeds, the server rejects it (which aborts the
\* open transaction), or it fails before reaching the server.
CaughtOutcomes == {"ok"} \cup (IF CanFault THEN {"server_error", "client_error"} ELSE {})

\* A statement without parameters inside a try: it succeeds or the server rejects it.
IndexOutcomes == {"ok"} \cup (IF CanFault THEN {"server_error"} ELSE {})

Injected(outcome) == IF outcome = "ok" THEN faults ELSE faults + 1

\* ------------------------------------------------------------------- store
\* Rows of child tables that reference one of the ids.
CommunitiesOf(d, ids) == { c \in d["communities"] : c.sector_id \in ids }

PopulationOf(d, ids) == { p \in d["population_data"] : p.community_id \in ids }

Ids(rows) == { row.id : row \in rows }

\* DELETE FROM dubai.<table> is rejected when a row of it is still referenced
\* and the foreign key does not cascade.
DeleteBlocked(d, table) ==
    /\ ~ fk_cascade
    /\ \/ table = "sectors" /\ CommunitiesOf(d, Ids(d["sectors"])) # {}
       \/ table = "communities" /\ PopulationOf(d, Ids(d["communities"])) # {}

\* The committed rows after DELETE FROM dubai.<table> (with its cascades).
DeleteAll(d, table) ==
    CASE table = "sectors" ->
           LET gone == CommunitiesOf(d, Ids(d["sectors"]))
           IN  [d EXCEPT !["sectors"] = {},
                         !["communities"] = @ \ gone,
                         !["population_data"] = @ \ PopulationOf(d, Ids(gone))]
      [] table = "communities" ->
           [d EXCEPT !["communities"] = {},
                     !["population_data"] = @ \ PopulationOf(d, Ids(d["communities"]))]
      [] OTHER -> [d EXCEPT ![table] = {}]

\* INSERT is rejected when the natural key is declared UNIQUE and a row of the
\* table, committed or pending in this transaction, carries the key already.
DuplicateKey(rows, column, key) ==
    unique_keys /\ \E row \in rows : row[column] = key

\* The other runs that have a transaction open in one of the phases.
OpenElsewhere(r, phases) ==
    { q \in Runs \ {r} :
        run[q].phase \in phases /\ run[q].conn.open /\ ~ run[q].conn.aborted }

\* INSERT waits while another open transaction holds a row with the same key of
\* a UNIQUE column: it goes on when that transaction has ended.
KeyHeld(r, phase, column, key) ==
    /\ unique_keys
    /\ \E q \in OpenElsewhere(r, {phase}) :
          \E row \in run[q].conn.pending : row[column] = key

\* The phases whose inserted rows hold a lock on rows a DELETE of the table removes.
ChildPhases(table) ==
    CASE table = "sectors" ->
           {"LoadingCommunities"}
               \cup (IF fk_cascade THEN {"LoadingPopulation"} ELSE {})
      [] table = "communities" -> {"LoadingPopulation"}
      [] OTHER -> {}

\* DELETE waits while another open transaction has inserted rows that reference
\* rows it removes.
ChildrenHeld(r, table) ==
    \E q \in OpenElsewhere(r, ChildPhases(table)) : run[q].conn.pending # {}

\* ------------------------------------------------------------ check_csv_files
\* (a check that stops at the first missing file)
missing_files_first(present) ==
    IF \E k \in DOMAIN required_files : required_files[k] \notin present
    THEN << required_files[CHOOSE k \in DOMAIN required_files :
                /\ required_files[k] \notin present
                /\ \A m \in 1 .. k - 1 : required_files[m] \in present] >>
    ELSE << >>

missing_files(present) == SelectSeq(required_files, LAMBDA f : f \notin present)

\* (a process that always reports success)
ExitCode_zero(success) == 0

\* exit(0 if success else 1)
ExitCode(success) == IF success THEN 0 ELSE 1

\* What is left of a run once its process has exited: the exit code and what the
\* log says of its end (the error or the verification report); the loader and its
\* locals are gone.
Exited(rr, code) ==
    [IdleRun EXCEPT !.phase = rr.phase, !.entered = rr.entered,
                    !.error = rr.error,
                    !.verified = rr.verified, !.verification = rr.verification,
                    !.returned = rr.returned,
                    !.exited = TRUE, !.exit_code = code]

\* The process of an earlier run has started; unless runs may overlap, it has exited.
Started(q) == run[q].phase # "Idle" \/ run[q].exited

\* (a loader that holds a lock for the whole run: it starts when no other run is on)
StartRun_locked(r) ==
    /\ run[r].phase = "Idle" /\ ~ run[r].exited
    /\ \A q \in Runs : q < r => run[q].exited
    /\ \E outcome \in FatalOutcomes :
         /\ faults' = Injected(outcome)
         /\ run' = [run EXCEPT ![r] =
                      IF outcome = "ok" THEN Enter(@, "ValidatingInputs", "-")
                      ELSE Exited(@, ExitCode(FALSE))]
    /\ UNCHANGED << envVars, db, db_indexes, next_id >>

\* main: loader = DubaiDataLoader(); loader.load_all_data(). The constructor
\* builds the URL and the engine without connecting; when it raises, main catches
\* the exception, returns False and the process exits.
StartRun(r) ==
    /\ run[r].phase = "Idle" /\ ~ run[r].exited
    /\ \A q \in Runs : q < r => Started(q)
    /\ concurrent \/ \A q \in Runs : q < r => run[q].exited
    /\ \E outcome \in FatalOutcomes :
         /\ faults' = Injected(outcome)
         /\ run' = [run EXCEPT ![r] =
                      IF outcome = "ok" THEN Enter(@, "ValidatingInputs", "-")
                      ELSE Exited(@, ExitCode(FALSE))]
    /\ UNCHANGED << envVars, db, db_indexes, next_id >>

\* main, after load_all_data: success = True when it returned True, False when it
\* raised; exit(0 if success else 1).
main(r) ==
    /\ run[r].phase \in { "Done", "Failed" } /\ ~ run[r].exited
    /\ run' = [run EXCEPT ![r] = Exited(@, ExitCode(run[r].returned))]
    /\ UNCHANGED << envVars, db, db_indexes, next_id, faults >>

check_csv_files(r) ==
    /\ run[r].phase = "ValidatingInputs"
    /\ LET missing == missing_files(files_present)
       IN  run' = [run EXCEPT ![r] =
                    IF missing # << >>
                    THEN Raise(@, "FileNotFoundError", missing)
                    ELSE Enter(@, "LoadingSectors", "read")]
    /\ UNCHANGED << envVars, db, db_indexes, next_id, faults >>

\* ------------------------------------------------- with-block, delete, commit
\* (a load that appends: the DELETE is left out)
ClearTable_append(r, table) ==
    /\ run[r].step = "clear"
    /\ \E outcome \in FatalOutcomes :
         LET blocked == table \in tables_present /\ DeleteBlocked(db, table)
         IN  /\ faults' = Injected(outcome)
             /\ IF outcome = "error" \/ blocked
                THEN /\ run' = [run EXCEPT ![r] =
                                  Raise(@, IF outcome = "error" THEN "StoreError"
                                           ELSE "IntegrityError", << >>)]
                     /\ db' = db
                ELSE /\ run' = [run EXCEPT ![r].step = "insert",
                                           ![r].conn = OpenConn,
                                           ![r].mutations =
                                              IF table \in tables_present
                                              THEN @ + 1 ELSE @]
                     /\ db' = db
    /\ UNCHANGED << envVars, db_indexes, next_id >>

\* with self.engine.connect() as conn: table_exists; DELETE; conn.commit()
ClearTable(r, table) ==
    /\ run[r].step = "clear"
    /\ ~ (table \in tables_present /\ ChildrenHeld(r, table))
    /\ \E outcome \in FatalOutcomes :
         LET blocked == table \in tables_present /\ DeleteBlocked(db, table)
         IN  /\ faults' = Injected(outcome)
             /\ IF outcome = "error" \/ blocked
                THEN /\ run' = [run EXCEPT ![r] =
                                  Raise(@, IF outcome = "error" THEN "StoreError"
                                           ELSE "IntegrityError", << >>)]
                     /\ db' = db
                ELSE /\ run' = [run EXCEPT ![r].step = "insert",
                                           ![r].conn = OpenConn,
                                           ![r].mutations =
                                              IF table \in tables_present
                                              THEN @ + 1 ELSE @]
                     /\ db' = IF table \in tables_present
                              THEN DeleteAll(db, table) ELSE db
    /\ UNCHANGED << envVars, db_indexes, next_id >>

\* The final conn.commit() of a load phase and the end of its with-block. A commit
\* of an aborted transaction is answered with a rollback and raises nothing.
CommitLoad(r, table, next_phase, next_step) ==
    /\ run[r].step = "insert" /\ run[r].j >= Len(run[r].df)
    /\ \E outcome \in FatalOutcomes :
         /\ faults' = Injected(outcome)
         /\ IF outcome = "error"
            THEN /\ run' = [run EXCEPT ![r] = Raise(@, "StoreError", << >>)]
                 /\ db' = db
            ELSE /\ run' = [run EXCEPT ![r] = Enter([@ EXCEPT !.conn = ClosedConn],
                                                       next_phase, next_step)]
                 /\ db' = IF run[r].conn.aborted THEN db
                          ELSE [db EXCEPT ![table] = @ \cup run[r].conn.pending]
    /\ UNCHANGED << envVars, db_indexes, next_id >>

\* (the position of the row in the frame taken for the id of the stored row)
scalar_rowno(r, table) == run[r].j + 1

\* result.scalar() of INSERT ... RETURNING id: the id the store gave the row.
scalar(r, table) == next_id[table]

\* --------------------------------------------------------------- load_sectors
CleanSectors(df) ==
    SelectSeq(dropna(df, {"sector_name_en", "total_population"}),
              LAMBDA row : ~ ContainsMarker(row.sector_name_en))

ReadSectors(r) ==
    /\ run[r].phase = "LoadingSectors" /\ run[r].step = "read"
    /\ run' = [run EXCEPT ![r].df = CleanSectors(csv["sectors.csv"]),
                          ![r].sector_mapping = EmptyMapping,
                          ![r].j = 0,
                          ![r].step = "clear"]
    /\ UNCHANGED << envVars, db, db_indexes, next_id, faults >>

ClearSectors(r) == run[r].phase = "LoadingSectors" /\ ClearTable(r, "sectors")

\* (a sector loader that logs a failed insert and goes on to the next row)
InsertSector_caught(r) ==
    /\ run[r].phase = "LoadingSectors" /\ run[r].step = "insert"
    /\ run[r].j < Len(run[r].df)
    /\ LET row == run[r].df[run[r].j + 1]
       IN  \E outcome \in FatalOutcomes :
             /\ faults' = Injected(outcome)
             /\ IF outcome = "error" \/ "sectors" \notin tables_present
                THEN /\ run' = [run EXCEPT ![r].j = @ + 1, ![r].warnings = @ + 1]
                     /\ next_id' = next_id
                ELSE /\ run' = [run EXCEPT
                           ![r].j = @ + 1,
                           ![r].conn.pending = @ \cup
                               {[id |-> next_id["sectors"],
                                 name_en |-> row.sector_name_en,
                                 name_ar |-> row.sector_name_ar,
                                 run |-> r, row |-> run[r].j + 1]},
                           ![r].sector_mapping =
                               Put(@, row.sector_name_en, next_id["sectors"]),
                           ![r].mutations = @ + 1]
                     /\ next_id' = [next_id EXCEPT !["sectors"] = @ + 1]
    /\ UNCHANGED << envVars, db, db_indexes >>

InsertSector(r) ==
    /\ run[r].phase = "LoadingSectors" /\ run[r].step = "insert"
    /\ run[r].j < Len(run[r].df)
    /\ ~ KeyHeld(r, "LoadingSectors", "name_en", run[r].df[run[r].j + 1].sector_name_en)
    /\ LET row == run[r].df[run[r].j + 1]
           sector_id == scalar(r, "sectors")
           duplicate == DuplicateKey(db["sectors"] \cup run[r].conn.pending,
                                     "name_en", row.sector_name_en)
       IN  \E outcome \in FatalOutcomes :
             /\ faults' = Injected(outcome)
             /\ IF \/ outcome = "error" \/ "sectors" \notin tables_present
                   \/ duplicate
                THEN /\ run' = [run EXCEPT ![r] =
                                  Raise(@, IF outcome = "ok" /\ duplicate
                                           THEN "IntegrityError" ELSE "StoreError", << >>)]
                     /\ next_id' = next_id
                ELSE /\ run' = [run EXCEPT
                           ![r].j = @ + 1,
                           ![r].conn.pending = @ \cup
                               {[id |-> next_id["sectors"],
                                 name_en |-> row.sector_name_en,
                                 name_ar |-> row.sector_name_ar,
                                 run |-> r, row |-> run[r].j + 1]},
                           ![r].sector_mapping = Put(@, row.sector_name_en, sector_id),
                           ![r].mutations = @ + 1]
                     /\ next_id' = [next_id EXCEPT !["sectors"] = @ + 1]
    /\ UNCHANGED << envVars, db, db_indexes >>

\* (an orchestrator that goes from the sectors straight to the population)
CommitSectors_skip(r) ==
    run[r].phase = "LoadingSectors" /\ CommitLoad(r, "sectors", "LoadingPopulation", "read")

CommitSectors(r) ==
    run[r].phase = "LoadingSectors" /\ CommitLoad(r, "sectors", "LoadingCommunities", "read")

\* ----------------------------------------------------------- load_communities
CleanCommunities(df) ==
    SelectSeq(dropna(df, {"community_code", "name_en", "sector_name_en"}),
              LAMBDA row : row.sector_name_en # BannerLabel)

ReadCommunities(r) ==
    /\ run[r].phase = "LoadingCommunities" /\ run[r].step = "read"
    /\ run' = [run EXCEPT ![r].df = CleanCommunities(csv["communities.csv"]),
                          ![r].community_mapping = EmptyMapping,
                          ![r].j = 0,
                          ![r].step = "clear"]
    /\ UNCHANGED << envVars, db, db_indexes, next_id, faults >>

ClearCommunities(r) ==
    run[r].phase = "LoadingCommunities" /\ ClearTable(r, "communities")

\* (a loader that never skips a row)
Unresolved_never(mapping, key) == FALSE

\* if not sector_id: the row has no sector to reference.
Unresolved(mapping, key) == Get(mapping, key) = None

\* The store accepts a row of dubai.communities: its table exists and its
\* sector_id references a sector row.
CommunityAccepted(sector_id) ==
    /\ "communities" \in tables_present
    /\ sector_id \in Ids(db["sectors"])

InsertCommunity(r) ==
    /\ run[r].phase = "LoadingCommunities" /\ run[r].step = "insert"
    /\ run[r].j < Len(run[r].df)
    /\ \/ Unresolved(run[r].sector_mapping, run[r].df[run[r].j + 1].sector_name_en)
       \/ ~ KeyHeld(r, "LoadingCommunities", "code",
                    run[r].df[run[r].j + 1].community_code)
    /\ LET row == run[r].df[run[r].j + 1]
           sector_id == Get(run[r].sector_mapping, row.sector_name_en)
           community_id == scalar(r, "communities")
           duplicate == DuplicateKey(db["communities"] \cup run[r].conn.pending,
                                     "code", row.community_code)
       IN  IF Unresolved(run[r].sector_mapping, row.sector_name_en)
           THEN /\ run' = [run EXCEPT ![r].j = @ + 1,
                                      ![r].warnings = @ + 1]
                /\ UNCHANGED << next_id, faults >>
           ELSE \E outcome \in FatalOutcomes :
                  /\ faults' = Injected(outcome)
                  /\ IF \/ outcome = "error" \/ ~ CommunityAccepted(sector_id)
                        \/ duplicate
                     THEN /\ run' = [run EXCEPT ![r] =
                                       Raise(@, IF outcome = "ok" /\ duplicate
                                                THEN "IntegrityError"
                                                ELSE "StoreError", << >>)]
                          /\ next_id' = next_id
                     ELSE /\ run' = [run EXCEPT
                                ![r].j = @ + 1,
                                ![r].conn.pending = @ \cup
                                    {[id |-> next_id["communities"],
                                      code |-> row.community_code,
                                      sector_id |-> sector_id,
                                      run |-> r, row |-> run[r].j + 1]},
                                ![r].community_mapping =
                                    Put(@, row.community_code, community_id),
                                ![r].mutations = @ + 1]
                          /\ next_id' = [next_id EXCEPT !["communities"] = @ + 1]
    /\ UNCHANGED << envVars, db, db_indexes >>

CommitCommunities(r) ==
    /\ run[r].phase = "LoadingCommunities"
    /\ CommitLoad(r, "communities", "LoadingPopulation", "read")

\* ------------------------------------------------------- load_population_data
CleanPopulation(df) == dropna(df, {"community_code", "year", "population", "density"})

ReadPopulation(r) ==
    /\ run[r].phase = "LoadingPopulation" /\ run[r].step = "read"
    /\ LET population_df == CleanPopulation(csv["population.csv"])
       IN  run' = [run EXCEPT ![r].df = population_df,
                              ![r].successful_records = 0,
                              ![r].total_records = Len(population_df),
                              ![r].i = 0, ![r].j = 0, ![r].batch_success = 0,
                              ![r].step = "clear"]
    /\ UNCHANGED << envVars, db, db_indexes, next_id, faults >>

ClearPopulation(r) ==
    run[r].phase = "LoadingPopulation" /\ ClearTable(r, "population_data")

\* The store accepts a row of dubai.population_data: the table exists, the
\* transaction is not aborted, the numeric columns get numeric values and the
\* community_id references a community row.
PopulationAccepted(conn, row, community_id) ==
    /\ "population_data" \in tables_present
    /\ ~ conn.aborted
    /\ IsNumeric(row.year) /\ IsNumeric(row.population) /\ IsNumeric(row.density)
    /\ community_id \in Ids(db["communities"])

\* One turn of the inner loop: for _, row in batch.iterrows()
PopulationRow(r) ==
    /\ run[r].phase = "LoadingPopulation" /\ run[r].step = "insert"
    /\ run[r].i < run[r].total_records
    /\ run[r].j < Len(Batch(run[r].df, run[r].i))
    /\ LET pos == run[r].i + run[r].j + 1
           row == Batch(run[r].df, run[r].i)[run[r].j + 1]
           community_id == Get(run[r].community_mapping, row.community_code)
       IN  IF Unresolved(run[r].community_mapping, row.community_code)
           THEN /\ run' = [run EXCEPT ![r].j = @ + 1, ![r].skipped = @ + 1]
                /\ UNCHANGED << next_id, faults >>
           ELSE \E outcome \in CaughtOutcomes :
                  /\ faults' = Injected(outcome)
                  /\ IF outcome = "ok"
                        /\ PopulationAccepted(run[r].conn, row, community_id)
                     THEN /\ run' = [run EXCEPT
                                ![r].j = @ + 1,
                                ![r].conn.pending = @ \cup
                                    {[id |-> next_id["population_data"],
                                      community_id |-> community_id,
                                      year |-> row.year,
                                      run |-> r, row |-> pos]},
                                ![r].successful_records = @ + 1,
                                ![r].batch_success = @ + 1,
                                ![r].inserted = @ \cup {pos},
                                ![r].mutations = @ + 1]
                          /\ next_id' = [next_id EXCEPT
                                           !["population_data"] = @ + 1]
                     ELSE /\ run' = [run EXCEPT
                                ![r].j = @ + 1,
                                ![r].conn.aborted =
                                    @ \/ outcome # "client_error",
                                ![r].insert_failures = @ + 1]
                          /\ next_id' = next_id
    /\ UNCHANGED << envVars, db, db_indexes >>

\* The end of one turn of the outer loop: the "Processed batch" line.
EndBatch(r) ==
    /\ run[r].phase = "LoadingPopulation" /\ run[r].step = "insert"
    /\ run[r].i < run[r].total_records
    /\ run[r].j = Len(Batch(run[r].df, run[r].i))
    /\ run' = [run EXCEPT
          ![r].batches = Append(@,
              [processed |-> Min(run[r].i + batch_size, run[r].total_records),
               total |-> run[r].total_records,
               rows |-> run[r].j,
               successful |-> run[r].batch_success]),
          ![r].i = @ + batch_size,
          ![r].j = 0,
          ![r].batch_success = 0]
    /\ UNCHANGED << envVars, db, db_indexes, next_id, faults >>

\* conn.commit(); return successful_records
CommitPopulation(r) ==
    /\ run[r].phase = "LoadingPopulation" /\ run[r].step = "insert"
    /\ run[r].i >= run[r].total_records
    /\ \E outcome \in FatalOutcomes :
         /\ faults' = Injected(outcome)
         /\ IF outcome = "error"
            THEN /\ run' = [run EXCEPT ![r] = Raise(@, "StoreError", << >>)]
                 /\ db' = db
            ELSE /\ run' = [run EXCEPT ![r] =
                              Enter([@ EXCEPT !.conn = ClosedConn,
                                              !.population_count =
                                                  run[r].successful_records],
                                    "BuildingIndexes", "connect")]
                 /\ db' = IF run[r].conn.aborted THEN db
                          ELSE [db EXCEPT !["population_data"] =
                                              @ \cup run[r].conn.pending]
    /\ UNCHANGED << envVars, db_indexes, next_id >>

\* ------------------------------------------------------------- create_indexes
ConnectIndexes(r) ==
    /\ run[r].phase = "BuildingIndexes" /\ run[r].step = "connect"
    /\ \E outcome \in FatalOutcomes :
         /\ faults' = Injected(outcome)
         /\ run' = [run EXCEPT ![r] =
                      IF outcome = "error" THEN Raise(@, "StoreError", << >>)
                      ELSE [@ EXCEPT !.conn = OpenConn, !.idx = 0, !.step = "create"]]
    /\ UNCHANGED << envVars, db, db_indexes, next_id >>

\* for index_sql in indexes: try: CREATE INDEX IF NOT EXISTS ... except: warning
CreateIndex(r) ==
    /\ run[r].phase = "BuildingIndexes" /\ run[r].step = "create"
    /\ run[r].idx < Len(indexes)
    /\ LET index == indexes[run[r].idx + 1]
       IN  \E outcome \in IndexOutcomes :
                  /\ faults' = Injected(outcome)
                  /\ run' = [run EXCEPT ![r] =
                       IF /\ outcome = "ok"
                          /\ index.table \in tables_present
                          /\ ~ run[r].conn.aborted
                       THEN [@ EXCEPT !.idx = @ + 1,
                                      !.conn.pending_idx = @ \cup {index.name}]
                       ELSE [@ EXCEPT !.idx = @ + 1,
                                      !.conn.aborted = TRUE,
                                      !.index_failures = @ + 1]]
    /\ UNCHANGED << envVars, db, db_indexes, next_id >>

CommitIndexes(r) ==
    /\ run[r].phase = "BuildingIndexes" /\ run[r].step = "create"
    /\ run[r].idx >= Len(indexes)
    /\ \E outcome \in FatalOutcomes :
         /\ faults' = Injected(outcome)
         /\ IF outcome = "error"
            THEN /\ run' = [run EXCEPT ![r] = Raise(@, "StoreError", << >>)]
                 /\ db_indexes' = db_indexes
            ELSE /\ run' = [run EXCEPT ![r] =
                              Enter([@ EXCEPT !.conn = ClosedConn], "Verifying", "query")]
                 /\ db_indexes' = IF run[r].conn.aborted THEN db_indexes
                                  ELSE db_indexes \cup run[r].conn.pending_idx
    /\ UNCHANGED << envVars, db, next_id >>

\* -------------------------------------------------------- verify_data_loading
\* SELECT year, COUNT(*) FROM dubai.population_data GROUP BY year
year_stats(rows) ==
    [year \in { p.year : p \in rows } |->
        Cardinality({ p \in rows : p.year = year })]

Report(d) ==
    [sectors |-> Cardinality(d["sectors"]),
     communities |-> Cardinality(d["communities"]),
     population_records |-> Cardinality(d["population_data"]),
     year_distribution |-> year_stats(d["population_data"])]

verify_data_loading(r) ==
    /\ run[r].phase = "Verifying" /\ run[r].step = "query"
    /\ \E outcome \in FatalOutcomes :
         /\ faults' = Injected(outcome)
         /\ run' = [run EXCEPT ![r] =
                      IF outcome = "error" \/ tables_present # Tables
                      THEN Raise(@, "StoreError", << >>)
                      ELSE [@ EXCEPT !.verification = Report(db),
                                     !.verified = TRUE,
                                     !.step = "summary"]]
    /\ UNCHANGED << envVars, db, db_indexes, next_id >>

\* ------------------------------------------------- load_all_data: the summary
FinishRun(r) ==
    /\ run[r].phase = "Verifying" /\ run[r].step = "summary"
    /\ run' = [run EXCEPT ![r] =
                 Enter([@ EXCEPT !.summary =
                            [loaded |-> run[r].verification.population_records,
                             attempted |-> run[r].population_count],
                        !.returned = TRUE],
                       "Done", "-")]
    /\ UNCHANGED << envVars, db, db_indexes, next_id, faults >>

\* ------------------------------------------------- create_engine_with_retry
\* The function has not been called.
NoBoot ==
    [status |-> "idle", max_retries |-> 0, delay |-> 0, attempt |-> 0,
     attempts |-> 0, waits |-> 0, slept |-> 0, last |-> "-"]

loaderVars == << files_present, csv, fk_cascade, unique_keys, tables_present, concurrent,
                 db, db_indexes, next_id, faults, run >>

\* What one attempt (create_engine, connect, SELECT 1) can do: succeed, raise an
\* SQLAlchemyError, or raise an exception that is not an SQLAlchemyError.
ProbeOutcomes == { "ok", "SQLAlchemyError", "Exception" }

\* The call: for attempt in range(max_retries) starts with attempt = 0.
Call(n, d) ==
    [status |-> "trying", max_retries |-> n, delay |-> d, attempt |-> 0,
     attempts |-> 0, waits |-> 0, slept |-> 0, last |-> "-"]

\* (a retry loop that never gives up)
LastAttempt_never(b) == FALSE

\* The else branch of `if attempt < max_retries - 1`.
LastAttempt(b) == ~ (b.attempt < b.max_retries - 1)

\* One turn of the loop up to the return, the raise or the sleep.
TryConnect ==
    /\ boot.status = "trying"
    /\ \E outcome \in ProbeOutcomes :
         boot' = [boot EXCEPT
                    !.attempts = @ + 1,
                    !.last = outcome,
                    !.status = CASE outcome = "ok" -> "returned"
                                 [] outcome = "Exception" -> "raised"
                                 [] OTHER -> IF LastAttempt(boot) THEN "raised"
                                             ELSE "sleeping"]
    /\ UNCHANGED << loaderVars, api >>

\* time.sleep(delay), then the next turn of the loop.
Sleep ==
    /\ boot.status = "sleeping"
    /\ boot' = [boot EXCEPT !.waits = @ + 1,
                            !.slept = @ + boot.delay,
                            !.attempt = @ + 1,
                            !.status = "trying"]
    /\ UNCHANGED << loaderVars, api >>

\* The call has returned the engine or raised.
Ended == boot.status \in { "returned", "raised" }

\* ------------------------------------------------------------ the REST process
NoRequest == [endpoint |-> "-", name |-> << >>, years |-> << >>]

\* No session was made: nothing was called on one.
NoSession == [opened |-> FALSE, commits |-> 0, rollbacks |-> 0, closes |-> 0]

NoResponse ==
    [status |-> 0, raised |-> "-", rows |-> 0, body |-> "-", exit |-> "-",
     session |-> NoSession]

\* Before startup: _engine and _SessionLocal are None.
NoApi ==
    [pc |-> "down", engine |-> FALSE, SessionLocal |-> FALSE,
     \* what the last init_database() returned, what the last getter returned
     init |-> "-", result |-> "-",
     request |-> NoRequest, response |-> NoResponse, served |-> 0]

\* init_database once create_engine_with_retry() has ended: _engine and
\* _SessionLocal are set when it returned an engine and left alone when it raised;
\* it returns True then, and False when the bootstrap raised (except Exception).
init_database(a) ==
    [a EXCEPT !.engine = IF boot.status = "returned" THEN TRUE ELSE @,
              !.SessionLocal = IF boot.status = "returned" THEN TRUE ELSE @,
              !.init = IF boot.status = "returned" THEN "True" ELSE "False"]

\* Startup of the REST process: init_database() calls create_engine_with_retry()
\* with its defaults.
lifespan ==
    /\ api.pc = "down"
    /\ boot' = Call(max_retries, delay)
    /\ api' = [api EXCEPT !.pc = "startup"]
    /\ UNCHANGED loaderVars

\* init_database returns True or False; either way the process starts serving.
Serve ==
    /\ api.pc = "startup" /\ Ended
    /\ api' = [init_database(api) EXCEPT !.pc = "serving"]
    /\ UNCHANGED << loaderVars, boot >>

\* The views of schema analytics read by the two lookups: the yearly records of
\* the communities of the named sector, and those of the community with the code.
sector_population(d, sector_name) ==
    { p \in d["population_data"] :
        \E c \in d["communities"], sec \in d["sectors"] :
            p.community_id = c.id /\ c.sector_id = sec.id /\ sec.name_en = sector_name }

community_population(d, community_code) ==
    { p \in d["population_data"] :
        \E c \in d["communities"] : p.community_id = c.id /\ c.code = community_code }

Endpoints == { "get_sector_data", "get_community_data" }

\* The rows the SELECT of the endpoint returns: AND year = ANY(:years) only when
\* years is given and not empty.
Select(endpoint, name, years) ==
    LET view == IF endpoint = "get_sector_data" THEN sector_population(db, name)
                ELSE community_population(db, name)
    IN  IF years # << >> THEN { p \in view : p.year \in Range(years) } ELSE view

\* db.execute and db.commit succeed or raise an SQLAlchemyError.
SessionOutcomes == { "ok", "SQLAlchemyError" }

\* The body of the with block: how control leaves it.
Block(execute, data) ==
    CASE execute # "ok" -> "SQLAlchemyError"
      [] data = {} -> "HTTPException"
      [] OTHER -> "return"

\* get_db around the block: commit after a block that ended normally; an
\* SQLAlchemyError is rolled back and raised again; anything else passes through
\* the finally; the session is closed on every path.
get_db(block, commit) ==
    IF block = "return" /\ commit # "ok" THEN "SQLAlchemyError" ELSE block

\* (a get_db whose except clause catches every exception)
SessionCalls_catchall(block, commit) ==
    [opened |-> TRUE,
     commits |-> IF block = "return" THEN 1 ELSE 0,
     rollbacks |-> IF block # "return" \/ commit # "ok" THEN 1 ELSE 0,
     closes |-> 1]

\* What get_db calls on the session it made: db.commit() after the yield when
\* the block ended normally, db.rollback() in except SQLAlchemyError (raised by
\* the block or by the commit), db.close() in finally.
SessionCalls(block, commit) ==
    [opened |-> TRUE,
     commits |-> IF block = "return" THEN 1 ELSE 0,
     rollbacks |-> IF \/ block = "SQLAlchemyError"
                      \/ block = "return" /\ commit # "ok"
                   THEN 1 ELSE 0,
     closes |-> 1]

\* (an endpoint without the `except HTTPException: raise` clause)
Status_wrapped(exit) == IF exit = "return" THEN 200 ELSE 500

\* The endpoint's except clauses: an HTTPException is raised again as it is, any
\* other exception becomes a 500.
Status(exit) ==
    CASE exit = "return" -> 200
      [] exit = "HTTPException" -> 404
      [] OTHER -> 500

\* What the client receives, with the session operation that raised and the
\* number of rows the query returned.
Response(initialized, execute, commit, data) ==
    IF ~ initialized
    THEN [status |-> Status("Exception"), raised |-> "get_db", rows |-> 0,
          body |-> "-", exit |-> "Exception", session |-> NoSession]
    ELSE [status |-> Status(get_db(Block(execute, data), commit)),
          body |-> Block(execute, data),
          exit |-> get_db(Block(execute, data), commit),
          session |-> SessionCalls(Block(execute, data), commit),
          raised |-> CASE execute # "ok" -> "execute"
                       [] data # {} /\ commit # "ok" -> "commit"
                       [] OTHER -> "-",
          rows |-> IF execute = "ok" THEN Cardinality(data) ELSE 0]

\* The session block of a lookup and its response.
Respond(a, request) ==
    LET data == Select(request.endpoint, request.name, request.years)
    IN  \E execute \in SessionOutcomes, commit \in SessionOutcomes :
            \* db.commit() runs only after a block that ended normally
            /\ (~ a.SessionLocal \/ Block(execute, data) # "return") => commit = "ok"
            /\ ~ a.SessionLocal => execute = "ok"
            /\ api' = [a EXCEPT !.pc = "serving",
                                !.result = "-",
                                !.request = request,
                                !.response =
                                    Response(a.SessionLocal, execute, commit, data),
                                !.served = @ + 1]

\* GET /api/sectors/{sector_name} or /api/communities/{community_code}: with a
\* sessionmaker the whole lookup runs; without one get_db calls init_database().
Lookup(endpoint, name, years) ==
    /\ api.pc = "serving" /\ api.served < MaxRequests
    /\ LET request == [endpoint |-> endpoint, name |-> name, years |-> years]
       IN  IF api.SessionLocal
           THEN Respond(api, request) /\ UNCHANGED boot
           ELSE /\ boot' = Call(max_retries, delay)
                /\ api' = [api EXCEPT !.pc = "init", !.request = request]
    /\ UNCHANGED loaderVars

Getters == { "get_engine", "get_session_local" }

\* (getters that initialise on every call)
Initialized_never(a, getter) == FALSE

\* The global the getter reads is not None.
Initialized(a, getter) == IF getter = "get_engine" THEN a.engine ELSE a.SessionLocal

\* return _engine, return _SessionLocal
Return(a, getter) ==
    [a EXCEPT !.pc = "serving",
              !.request = [endpoint |-> getter, name |-> << >>, years |-> << >>],
              !.response = NoResponse,
              !.result = IF Initialized(a, getter) THEN getter ELSE "None",
              !.served = @ + 1]

\* get_engine(), get_session_local(): init_database() when the global is None.
Getter(getter) ==
    /\ api.pc = "serving" /\ api.served < MaxRequests
    /\ IF Initialized(api, getter)
       THEN api' = Return(api, getter) /\ UNCHANGED boot
       ELSE /\ boot' = Call(max_retries, delay)
            /\ api' = [api EXCEPT !.pc = "init",
                                  !.request = [endpoint |-> getter, name |-> << >>,
                                               years |-> << >>]]
    /\ UNCHANGED loaderVars

\* After the init_database() call of get_db or of a getter: the lookup goes on
\* with the new sessionmaker or raises Exception("Database not initialized"); the
\* getter returns the global, None when the bootstrap failed.
Resume ==
    /\ api.pc = "init" /\ Ended
    /\ IF api.request.endpoint \in Endpoints
       THEN Respond(init_database(api), api.request)
       ELSE api' = Return(init_database(api), api.request.endpoint)
    /\ UNCHANGED << loaderVars, boot >>

\* --------------------------------------------------------------- input files
SectorA == << "Sector", "A" >>

UnknownSector == << "Unknown", "Sector" >>

SectorRow(name_en, name_ar, total_population) ==
    [sector_name_en |-> name_en, sector_name_ar |-> name_ar,
     total_population |-> total_population]

CommunityRow(code, name_en, sector_name_en) ==
    [community_code |-> code, name_en |-> name_en, sector_name_en |-> sector_name_en]

PopulationRecord(code, year, population, density) ==
    [community_code |-> code, year |-> year, population |-> population,
     density |-> density]

SectorRows ==
    { SectorRow(SectorA, << "ar" >>, << "1000" >>),
      SectorRow(<< "Population", "Distribution" >>, << "ar" >>, << "1000" >>) }

CommunityRows ==
    { CommunityRow(<< "C1" >>, << "One" >>, SectorA),
      CommunityRow(<< "C2" >>, << "Two" >>, UnknownSector) }

PopulationRows ==
    { PopulationRecord(<< "C1" >>, << "2020" >>, << "5000" >>, << "200" >>),
      PopulationRecord(<< "C9" >>, << "2021" >>, << "5000" >>, << "200" >>),
      PopulationRecord(<< "C1" >>, << "2021" >>, << "abc" >>, << "200" >>) }

\* The files of at most n rows over the given rows.
FilesOf(rows, n) == UNION { [1 .. k -> rows] : k \in 0 .. n }

\* The reference extract: one sector, a community of it and a community of a
\* sector that is not in sectors.csv, two yearly records of the first community.
RefSectors == << SectorRow(SectorA, << "ar" >>, << "1000" >>) >>

RefCommunities ==
    << CommunityRow(<< "C1" >>, << "One" >>, SectorA),
       CommunityRow(<< "C2" >>, << "Two" >>, UnknownSector) >>

RefPopulation ==
    << PopulationRecord(<< "C1" >>, << "2020" >>, << "5000" >>, << "200" >>),
       PopulationRecord(<< "C1" >>, << "2021" >>, << "5000" >>, << "200" >>) >>

Csv(s, c, p) ==
    [f \in Range(required_files) |->
        CASE f = "sectors.csv" -> s
          [] f = "communities.csv" -> c
          [] OTHER -> p]

\* Two rows of the file carry the same value in the column.
Repeats(df, column) ==
    \E i, k \in DOMAIN df : i < k /\ df[i][column] # NaN /\ df[i][column] = df[k][column]

\* Whether the natural keys are declared UNIQUE is not known; it can only matter
\* for files that repeat a sector name or a community code.
UniqueChoices(files) ==
    IF \/ Repeats(files["sectors.csv"], "sector_name_en")
       \/ Repeats(files["communities.csv"], "community_code")
    THEN BOOLEAN ELSE { TRUE }

\* The small inputs: every file of at most MaxRows rows, in one of the three
\* places, beside the reference content of the other two.
SmallInputs ==
    { Csv(s, RefCommunities, RefPopulation) : s \in FilesOf(SectorRows, MaxRows) }
    \cup { Csv(RefSectors, c, RefPopulation) : c \in FilesOf(CommunityRows, MaxRows) }
    \cup { Csv(RefSectors, RefCommunities, p) : p \in FilesOf(PopulationRows, MaxRows) }

EmptyStore == [t \in Tables |-> {}]

InitStore ==
    /\ db = EmptyStore
    /\ db_indexes = {}
    /\ next_id = [t \in Tables |-> 1]
    /\ run = [r \in Runs |-> IdleRun]
    /\ boot = NoBoot
    /\ api = NoApi

\* Small inputs, some of them missing; the store may fail MaxFaults times.
Init ==
    /\ files_present \in SUBSET Range(required_files)
    /\ IF files_present = Range(required_files)
       THEN csv \in SmallInputs
       ELSE csv = Csv(<< >>, << >>, << >>)
    /\ fk_cascade \in BOOLEAN
    /\ unique_keys \in UniqueChoices(csv)
    /\ tables_present \in {Tables, {}}
    /\ faults = 0
    /\ concurrent = FALSE
    /\ InitStore

Step(r) ==
    \/ StartRun(r)
    \/ check_csv_files(r)
    \/ ReadSectors(r) \/ ClearSectors(r) \/ InsertSector(r) \/ CommitSectors(r)
    \/ ReadCommunities(r) \/ ClearCommunities(r) \/ InsertCommunity(r)
    \/ CommitCommunities(r)
    \/ ReadPopulation(r) \/ ClearPopulation(r) \/ PopulationRow(r) \/ EndBatch(r)
    \/ CommitPopulation(r)
    \/ ConnectIndexes(r) \/ CreateIndex(r) \/ CommitIndexes(r)
    \/ verify_data_loading(r)
    \/ FinishRun(r)
    \/ main(r)

Next == \E r \in Runs : Step(r)

Spec == Init /\ [][Next]_vars

\* The scenario of 1200 population rows, the 501st of which has no usable
\* community code: a code that is in no mapping, or no code at all.
ScenarioRows == 2 * batch_size + 200

ScenarioPopulation(odd) ==
    [k \in 1 .. ScenarioRows |->
        IF k = batch_size + 1 THEN odd
        ELSE PopulationRecord(<< "C1" >>, << "2020" >>, << "5000" >>, << "200" >>)]

OddRows ==
    { PopulationRecord(<< "C9" >>, << "2020" >>, << "5000" >>, << "200" >>),
      PopulationRecord(NaN, << "2020" >>, << "5000" >>, << "200" >>) }

InitBatch ==
    /\ files_present = Range(required_files)
    /\ \E odd \in OddRows :
          csv = Csv(RefSectors, RefCommunities, ScenarioPopulation(odd))
    /\ fk_cascade \in BOOLEAN
    /\ unique_keys \in UniqueChoices(csv)
    /\ tables_present = Tables
    /\ faults = MaxFaults
    /\ concurrent = FALSE
    /\ InitStore

SpecBatch == InitBatch /\ [][Next]_vars

\* A second extract, with other names, and an empty one: the files are replaced
\* and the pipeline is run again.
AltSectors == << SectorRow(<< "Sector", "B" >>, << "ar" >>, << "1000" >>) >>

AltCommunities == << CommunityRow(<< "C3" >>, << "Three" >>, << "Sector", "B" >>) >>

AltPopulation ==
    << PopulationRecord(<< "C3" >>, << "2021" >>, << "5000" >>, << "200" >>) >>

AltInputs ==
    { Csv(AltSectors, AltCommunities, AltPopulation), Csv(<< >>, << >>, << >>) }

ReplaceInputs(r) ==
    /\ r > 1
    /\ run[r].phase = "Idle" /\ ~ run[r].exited
    /\ \A q \in Runs : q < r => run[q].exited
    /\ csv \notin AltInputs
    /\ csv' \in AltInputs
    /\ run' = [run EXCEPT ![r] = Enter(@, "ValidatingInputs", "-")]
    /\ UNCHANGED << files_present, fk_cascade, unique_keys, tables_present, concurrent, boot, api,
                    db, db_indexes, next_id, faults >>

InitRefresh ==
    /\ files_present = Range(required_files)
    /\ csv = Csv(RefSectors, RefCommunities, RefPopulation)
    /\ fk_cascade \in BOOLEAN
    /\ unique_keys \in UniqueChoices(csv)
    /\ tables_present \in {Tables, {}}
    /\ faults = 0
    /\ concurrent = FALSE
    /\ InitStore

NextRefresh == Next \/ \E r \in Runs : ReplaceInputs(r)

SpecRefresh == InitRefresh /\ [][NextRefresh]_vars

\* Extracts as they come: rows with an empty field, the banner line and the
\* footer line among the data rows.
DirtySectorRows ==
    { SectorRow(SectorA, << "ar" >>, << "1000" >>),
      SectorRow(NaN, << "ar" >>, << "1000" >>),
      SectorRow(<< "Sector", "B" >>, NaN, << "1000" >>),
      SectorRow(<< "Sector", "C" >>, << "ar" >>, NaN),
      SectorRow(BannerLabel, << "ar" >>, << "1000" >>),
      SectorRow(<< "Population", "Distribution" >>, << "ar" >>, << "1000" >>) }

DirtyCommunityRows ==
    { CommunityRow(<< "C1" >>, << "One" >>, SectorA),
      CommunityRow(NaN, << "Two" >>, SectorA),
      CommunityRow(<< "C3" >>, NaN, SectorA),
      CommunityRow(<< "C4" >>, << "Four" >>, NaN),
      CommunityRow(<< "C5" >>, << "Five" >>, BannerLabel) }

DirtyPopulationRows ==
    { PopulationRecord(<< "C1" >>, << "2020" >>, << "5000" >>, << "200" >>),
      PopulationRecord(NaN, << "2021" >>, << "5000" >>, << "200" >>),
      PopulationRecord(<< "C1" >>, NaN, << "5000" >>, << "200" >>),
      PopulationRecord(<< "C1" >>, << "2021" >>, NaN, << "200" >>),
      PopulationRecord(<< "C1" >>, << "2021" >>, << "5000" >>, NaN) }

DirtyInputs ==
    { Csv(f, RefCommunities, RefPopulation) : f \in FilesOf(DirtySectorRows, MaxRows) }
    \cup { Csv(RefSectors, f, RefPopulation) : f \in FilesOf(DirtyCommunityRows, MaxRows) }
    \cup { Csv(RefSectors, RefCommunities, f) : f \in FilesOf(DirtyPopulationRows, MaxRows) }

InitClean ==
    /\ files_present = Range(required_files)
    /\ csv \in DirtyInputs
    /\ fk_cascade \in BOOLEAN
    /\ unique_keys \in UniqueChoices(csv)
    /\ tables_present = Tables
    /\ faults = MaxFaults
    /\ concurrent = FALSE
    /\ InitStore

SpecClean == InitClean /\ [][Next]_vars

\* create_engine_with_retry called with some max_retries >= 1 and some delay.
RetryChoices == (1 .. MaxRetries) \cup { max_retries }

DelayChoices == { 0, 1, delay }

create_engine_with_retry ==
    /\ boot.status = "idle"
    /\ \E n \in RetryChoices, d \in DelayChoices : boot' = Call(n, d)
    /\ UNCHANGED << loaderVars, api >>

InitRetry ==
    /\ files_present = Range(required_files)
    /\ csv = Csv(RefSectors, RefCommunities, RefPopulation)
    /\ fk_cascade = TRUE /\ unique_keys = TRUE
    /\ tables_present = Tables
    /\ faults = 0
    /\ concurrent = FALSE
    /\ InitStore

NextRetry == create_engine_with_retry \/ TryConnect \/ Sleep

\* A call that has started runs on: the loop body and the sleep both end.
SpecRetry == InitRetry /\ [][NextRetry]_vars /\ WF_vars(TryConnect \/ Sleep)

\* The loader beside the REST process, which is the one caller of the bootstrap;
\* the database may be unreachable for a while (the store failures of the loader,
\* the failed attempts of the bootstrap).
InitBoot ==
    /\ files_present = Range(required_files)
    /\ csv = Csv(RefSectors, RefCommunities, RefPopulation)
    /\ fk_cascade = TRUE /\ unique_keys = TRUE
    /\ tables_present = Tables
    /\ faults = 0
    /\ concurrent = FALSE
    /\ InitStore

NextBoot == Next \/ lifespan \/ TryConnect \/ Sleep \/ Serve

SpecBoot == InitBoot /\ [][NextBoot]_vars

\* The lookups of the REST process beside one run of the loader, which fills the
\* store.
\* A name that has rows once the store is loaded, and one that never has.
Names(endpoint) ==
    IF endpoint = "get_sector_data" THEN { SectorA, UnknownSector }
    ELSE { << "C1" >>, << "C9" >> }

YearFilters == { << >>, << << "2020" >> >>, << << "1999" >> >> }

InitApi ==
    /\ files_present = Range(required_files)
    /\ csv = Csv(RefSectors, RefCommunities, RefPopulation)
    /\ fk_cascade = TRUE /\ unique_keys = TRUE
    /\ tables_present = Tables
    /\ faults = MaxFaults
    /\ concurrent = FALSE
    /\ InitStore

NextApi ==
    \/ Step(1)
    \/ lifespan \/ TryConnect \/ Sleep \/ Serve
    \/ \E endpoint \in Endpoints :
         \E name \in Names(endpoint), years \in YearFilters :
            Lookup(endpoint, name, years)
    \/ \E getter \in Getters : Getter(getter)
    \/ Resume

SpecApi == InitApi /\ [][NextApi]_vars

\* Two runs started without waiting for one another, on the reference extract.
Racers == { 1, 2 }

InitRace ==
    /\ files_present = Range(required_files)
    /\ csv = Csv(RefSectors, RefCommunities, RefPopulation)
    /\ fk_cascade \in BOOLEAN
    /\ unique_keys \in BOOLEAN
    /\ tables_present = Tables
    /\ faults = MaxFaults
    /\ concurrent = TRUE
    /\ InitStore

NextRace == \E r \in Racers : Step(r)

SpecRace == InitRace /\ [][NextRace]_vars

\* ==================================================================== claims
AllFiles == Range(required_files)

\* The run is the last one started: no later run has touched the store.
Latest(r) == \A q \in Runs : q > r => run[q].phase = "Idle"

\* C1: when a required file is absent, load_all_data fails in check_csv_files,
\* before any DELETE or INSERT, and the FileNotFoundError names every missing file.
C1_MissingFilesFailFirst ==
    \A r \in Runs :
        (files_present # AllFiles /\ run[r].phase \notin {"Idle", "ValidatingInputs"})
        => /\ run[r].phase = "Failed"
           /\ run[r].error.type = "FileNotFoundError"
           /\ run[r].entered = << "ValidatingInputs" >>
           /\ run[r].mutations = 0
           /\ ~ run[r].conn.open
           /\ Range(run[r].error.missing_files) = AllFiles \ files_present
           /\ Len(run[r].error.missing_files) = Cardinality(AllFiles \ files_present)

C1_Witness ==
    \E r \in Runs :
        /\ run[r].phase = "Failed"
        /\ Cardinality(AllFiles \ files_present) >= 2
        /\ Len(run[r].error.missing_files) >= 2

\* C2: a run moves through the phases only in the order ValidatingInputs,
\* LoadingSectors, LoadingCommunities, LoadingPopulation, BuildingIndexes,
\* Verifying, Done; an error sends it to Failed, which it never leaves; and it
\* returns True only after it entered every phase, in that order, and verified.
NextPhase(old, new) ==
    \E k \in 1 .. Len(Phases) - 1 : Phases[k] = old /\ Phases[k + 1] = new

C2_PhaseStep(r) ==
    /\ run[r].phase # run'[r].phase
       => \/ run[r].phase = "Idle" /\ run'[r].phase = "ValidatingInputs"
          \/ NextPhase(run[r].phase, run'[r].phase)
          \/ /\ run'[r].phase = "Failed"
             /\ run[r].phase \notin {"Idle", "Done", "Failed"}
             /\ run'[r].error.raised_in = run[r].phase
    /\ run'[r].error.type # "none" => run'[r].phase = "Failed"
    /\ run'[r].phase = "Failed" => ~ run'[r].returned
    /\ run'[r].returned
       => /\ run'[r].phase = "Done"
          /\ run'[r].entered = Phases
          /\ run'[r].verified

C2_PhaseOrder == [][\A r \in Runs : C2_PhaseStep(r)]_vars

C2_Witness ==
    /\ \E r \in Runs : run[r].returned /\ run[r].phase = "Done"
    /\ \E r \in Runs : run[r].phase = "Failed" /\ run[r].error.raised_in = "LoadingCommunities"

\* The rows of a table that run r can see or has written: the committed rows and,
\* while r is in the phase that loads the table, what its transaction holds.
Written(r, table, phase) ==
    db[table] \cup (IF run[r].phase = phase THEN run[r].conn.pending ELSE {})

AfterPopulation == { "BuildingIndexes", "Verifying", "Done" }

\* The row passes the store's column types.
RowValid(row) ==
    IsNumeric(row.year) /\ IsNumeric(row.population) /\ IsNumeric(row.density)

\* C3: a failed population insert costs that row only: with no failure but those
\* of the rows' own values, every resolvable row with valid values is in
\* population_data once load_population_data has committed and returned.
C3_OnlyFailingRowsLost ==
    \A r \in Runs :
        ( /\ Latest(r) /\ run[r].phase \in AfterPopulation
          /\ faults = 0 /\ tables_present = Tables )
        => \A k \in 1 .. Len(run[r].df) :
             ( /\ run[r].df[k].community_code \in DOMAIN run[r].community_mapping
               /\ RowValid(run[r].df[k]) )
             => \E p \in db["population_data"] : p.run = r /\ p.row = k

\* C4: the pipeline run twice on the same files, the store never failing,
\* succeeds both times and reports the same three row counts.
C4_RerunSameCounts ==
    \A r \in Runs :
        ( /\ r > 1 /\ faults = 0
          /\ run[r - 1].phase = "Done"
          /\ run[r].phase \in {"Done", "Failed"} )
        => /\ run[r].phase = "Done"
           /\ run[r].verification.sectors = run[r - 1].verification.sectors
           /\ run[r].verification.communities = run[r - 1].verification.communities
           /\ run[r].verification.population_records
                = run[r - 1].verification.population_records

\* C5: the sector mapping of a run holds, for each name, the id of a sector row
\* that this run inserted under that name; every community row references a
\* committed sector row of the same run, by an id of the mapping; every population
\* row references a committed community row of the same run, by an id of the
\* community mapping.
HoldsMappings(r) ==
    run[r].phase \in { "LoadingSectors", "LoadingCommunities", "LoadingPopulation",
                       "BuildingIndexes", "Verifying" }

Values(mapping) == { mapping[k] : k \in DOMAIN mapping }

C5_ParentsFirst ==
    /\ \A r \in Runs : HoldsMappings(r) =>
         /\ \A name \in DOMAIN run[r].sector_mapping :
              \E s \in Written(r, "sectors", "LoadingSectors") :
                 s.id = run[r].sector_mapping[name] /\ s.name_en = name /\ s.run = r
         /\ \A code \in DOMAIN run[r].community_mapping :
              \E c \in Written(r, "communities", "LoadingCommunities") :
                 c.id = run[r].community_mapping[code] /\ c.code = code /\ c.run = r
    /\ \A r \in Runs :
         \A c \in Written(r, "communities", "LoadingCommunities") :
            /\ \E s \in db["sectors"] : s.id = c.sector_id /\ s.run = c.run
            /\ (c.run = r /\ HoldsMappings(r)) => c.sector_id \in Values(run[r].sector_mapping)
    /\ \A r \in Runs :
         \A p \in Written(r, "population_data", "LoadingPopulation") :
            /\ \E c \in db["communities"] : c.id = p.community_id /\ c.run = p.run
            /\ (p.run = r /\ HoldsMappings(r))
                  => p.community_id \in Values(run[r].community_mapping)

C5_Witness ==
    \E r \in Runs :
        /\ r > 1
        /\ run[r].phase = "LoadingPopulation"
        /\ run[r].conn.pending # {}
        /\ db["communities"] # {}

\* C6: a community row whose sector name is no key of the sector mapping is not
\* inserted and adds nothing to the community mapping; it costs one warning and
\* raises nothing, and the rows after it are processed. The reference extract (one
\* resolvable and one unresolvable community) loads one community with one warning.
NoSector(r, k) == run[r].df[k].sector_name_en \notin DOMAIN run[r].sector_mapping

C6_UnresolvedSectorSkipped ==
    \A r \in Runs :
        /\ (run[r].phase = "LoadingCommunities" /\ run[r].step = "insert") =>
             /\ \A k \in 1 .. run[r].j :
                  IF NoSector(r, k)
                  THEN ~ \E c \in run[r].conn.pending : c.row = k
                  ELSE \E c \in run[r].conn.pending :
                         c.row = k /\ c.code = run[r].df[k].community_code
             /\ run[r].warnings = Cardinality({ k \in 1 .. run[r].j : NoSector(r, k) })
             /\ \A code \in DOMAIN run[r].community_mapping :
                  \E k \in 1 .. run[r].j :
                     ~ NoSector(r, k) /\ run[r].df[k].community_code = code
        /\ (faults = 0 /\ tables_present = Tables /\ run[r].error.type # "IntegrityError")
              => run[r].error.raised_in # "LoadingCommunities"
        /\ ( /\ csv["sectors.csv"] = RefSectors
             /\ csv["communities.csv"] = RefCommunities
             /\ run[r].phase \in {"LoadingPopulation"} \cup AfterPopulation
             /\ ~ run[r].exited
             /\ Latest(r) )
           => /\ Cardinality(DOMAIN run[r].community_mapping) = 1
              /\ Cardinality(db["communities"]) = 1
              /\ run[r].warnings = 1

C6_Witness ==
    \E r \in Runs :
        /\ run[r].phase = "LoadingCommunities" /\ run[r].step = "insert"
        /\ run[r].j = 2 /\ NoSector(r, 1) /\ run[r].warnings = 1
        /\ \E c \in run[r].conn.pending : c.row = 2

\* C7: a population row whose community code is no key of the community mapping
\* is never inserted and never counted as a success; it is not fatal, and every
\* row of the frame is still processed, each exactly once.
NoCommunity(r, k) ==
    run[r].df[k].community_code \notin DOMAIN run[r].community_mapping

Processed(r) == Min(run[r].i + run[r].j, run[r].total_records)

C7_UnresolvedCommunitySkipped ==
    \A r \in Runs :
        /\ (run[r].phase = "LoadingPopulation" /\ run[r].step = "insert") =>
             /\ \A k \in 1 .. Processed(r) :
                  NoCommunity(r, k) =>
                     /\ k \notin run[r].inserted
                     /\ ~ \E p \in run[r].conn.pending : p.row = k
             /\ run[r].successful_records = Cardinality(run[r].inserted)
             /\ run[r].inserted \subseteq { k \in 1 .. Processed(r) : ~ NoCommunity(r, k) }
             /\ run[r].skipped
                   = Cardinality({ k \in 1 .. Processed(r) : NoCommunity(r, k) })
             /\ run[r].successful_records + run[r].insert_failures + run[r].skipped
                   = Processed(r)
        /\ (faults = 0 /\ tables_present = Tables)
              => run[r].error.raised_in # "LoadingPopulation"
        /\ (run[r].phase \in AfterPopulation /\ ~ run[r].exited) =>
             /\ run[r].successful_records + run[r].insert_failures + run[r].skipped
                   = run[r].total_records
             /\ run[r].population_count = run[r].successful_records
             /\ \A k \in run[r].inserted : ~ NoCommunity(r, k)
             /\ Latest(r) => \A p \in db["population_data"] :
                                p.run = r /\ ~ NoCommunity(r, p.row)

C7_Witness ==
    \E r \in Runs :
        /\ run[r].phase \in AfterPopulation
        /\ Len(run[r].df) = 2 /\ NoCommunity(r, 1)
        /\ run[r].skipped = 1 /\ run[r].inserted = {2}
        /\ \E p \in db["population_data"] : p.row = 2

\* C8: the population rows are taken in batches of 500 that partition the frame
\* in order; in the scenario (1200 rows, the 501st without usable community code)
\* there are three batches of 500, 500 and 200 rows, 1199 rows are loaded, and the
\* final summary reports 1200 attempted beside the 1199 loaded.
BatchRows(r) == [k \in DOMAIN run[r].batches |-> run[r].batches[k].rows]

C8_BatchesAndCounts ==
    \A r \in Runs :
        (run[r].phase = "Done" /\ ~ run[r].exited)
        => /\ BatchRows(r) = << batch_size, batch_size, 200 >>
           /\ run[r].summary.loaded = ScenarioRows - 1
           /\ run[r].summary.attempted = ScenarioRows

\* C9: the year_distribution of the verification report has as keys the years of
\* the population rows whose insert succeeded; its counts sum to the count that
\* load_population_data returned, which is the report's population_records.
RECURSIVE SumOver(_, _)
SumOver(f, keys) ==
    IF keys = {} THEN 0
    ELSE LET k == CHOOSE x \in keys : TRUE
         IN  f[k] + SumOver(f, keys \ {k})

C9_YearDistribution ==
    \A r \in Runs :
        (run[r].phase = "Done" /\ ~ run[r].exited)
        => LET report == run[r].verification
           IN  /\ DOMAIN report.year_distribution
                     = { run[r].df[k].year : k \in run[r].inserted }
               /\ SumOver(report.year_distribution, DOMAIN report.year_distribution)
                     = run[r].population_count
               /\ report.population_records = run[r].population_count

\* C10: once a load phase of the latest run has completed, its table holds only
\* rows that this run inserted, each from a row of the current file; no row of an
\* earlier generation remains.
Completed(r, phase) ==
    \E k \in 1 .. Len(run[r].entered) - 1 : run[r].entered[k] = phase

C10_FullRefresh ==
    \A r \in Runs : Latest(r) =>
        /\ Completed(r, "LoadingSectors") =>
             \A s \in db["sectors"] :
                /\ s.run = r
                /\ \E k \in DOMAIN csv["sectors.csv"] :
                      csv["sectors.csv"][k].sector_name_en = s.name_en
        /\ Completed(r, "LoadingCommunities") =>
             \A c \in db["communities"] :
                /\ c.run = r
                /\ \E k \in DOMAIN csv["communities.csv"] :
                      csv["communities.csv"][k].community_code = c.code
        /\ Completed(r, "LoadingPopulation") =>
             \A p \in db["population_data"] :
                /\ p.run = r
                /\ \E k \in DOMAIN csv["population.csv"] :
                      csv["population.csv"][k].year = p.year

C10_Witness ==
    \E r \in Runs :
        /\ r > 1 /\ run[r].phase = "Done" /\ run[r - 1].phase = "Done"
        /\ run[r - 1].verification.sectors = 1
        /\ run[r - 1].verification.population_records = 2
        /\ csv["sectors.csv"] = AltSectors
        /\ Cardinality(db["sectors"]) = 1
        /\ Cardinality(db["population_data"]) = 1

\* C11: a store failure while a sector or community row is deleted or inserted is
\* not caught: the run goes to Failed from that phase and never enters the
\* population, index or verification phase; a failure of a population row insert
\* is caught: the run stays in load_population_data and counts the failure.
ParentPhases == { "LoadingSectors", "LoadingCommunities" }

StoreFailed == faults' = faults + 1

C11_Step(r) ==
    /\ ( /\ run[r].phase \in ParentPhases
         /\ run[r].step \in { "clear", "insert" }
         /\ run'[r] # run[r]
         /\ StoreFailed )
       => /\ run'[r].phase = "Failed"
          /\ run'[r].error.raised_in = run[r].phase
          /\ run'[r].error.type # "none"
          /\ ~ run'[r].conn.open
    /\ ( run'[r].phase = "Failed" /\ run'[r].error.raised_in \in ParentPhases )
       => /\ \A k \in DOMAIN run'[r].entered :
                run'[r].entered[k] \notin AfterPopulation \cup { "LoadingPopulation" }
          /\ ~ run'[r].returned /\ ~ run'[r].verified
    /\ ( /\ run[r].phase = "LoadingPopulation" /\ run[r].step = "insert"
         /\ run[r].i < run[r].total_records
         /\ run'[r] # run[r] )
       => /\ run'[r].phase = "LoadingPopulation"
          /\ run'[r].error = NoError
          /\ StoreFailed => run'[r].insert_failures = run[r].insert_failures + 1

C11_ParentFailuresFatal == [][\A r \in Runs : C11_Step(r)]_vars

C11_Witness ==
    /\ \E r \in Runs :
          /\ run[r].phase = "Failed" /\ run[r].error.raised_in = "LoadingSectors"
          /\ next_id["sectors"] > 1 /\ faults > 0
    /\ \E r \in Runs :
          /\ run[r].phase \in AfterPopulation /\ run[r].insert_failures > 0

\* C12: the failure to create one index is caught, does not abort the run and
\* does not cost the other indexes: with at most one statement rejected by the
\* store, a run that has left create_indexes has entered Verifying and at least
\* three of the four indexes exist.
IndexNames == { indexes[k].name : k \in DOMAIN indexes }

C12_OtherIndexesCreated ==
    \A r \in Runs :
        ( /\ tables_present = Tables /\ faults <= 1
          /\ run[r].index_failures > 0 )
        => /\ ~ ( run[r].phase = "Failed"
                  /\ run[r].error.raised_in = "BuildingIndexes" )
           /\ Completed(r, "BuildingIndexes")
              => /\ "Verifying" \in Range(run[r].entered)
                 /\ db_indexes \subseteq IndexNames
                 /\ Cardinality(db_indexes) >= Len(indexes) - 1

\* C13: a connection is open only inside the with-block of a phase function;
\* whenever a run leaves a phase, by return or by exception, its connection is
\* closed and nothing is pending on it.
InWithBlock(rr) ==
    \/ rr.phase \in ParentPhases \cup { "LoadingPopulation" } /\ rr.step = "insert"
    \/ rr.phase = "BuildingIndexes" /\ rr.step = "create"

C13_Step(r) ==
    /\ run'[r].conn.open => InWithBlock(run'[r])
    /\ ~ run'[r].conn.open => run'[r].conn = ClosedConn
    /\ run'[r].phase # run[r].phase => run'[r].conn = ClosedConn
    /\ run'[r].phase \in { "Idle", "Done", "Failed" } => run'[r].conn = ClosedConn

C13_ConnectionScoped == [][\A r \in Runs : C13_Step(r)]_vars

C13_Witness ==
    \E r \in Runs :
        /\ run[r].phase = "Failed" /\ run[r].error.raised_in = "LoadingCommunities"
        /\ next_id["communities"] > 1 /\ db["communities"] = {}
        /\ run[r].conn = ClosedConn

\* C14: the process exits with 0 exactly when load_all_data returned True, and
\* with 1 when the constructor or load_all_data raised; rows skipped or failed
\* inside a phase do not change the exit code of a run that reached the end.
C14_ExitCode ==
    \A r \in Runs :
        /\ run[r].exited =>
             /\ run[r].exit_code \in { 0, 1 }
             /\ run[r].phase \in { "Idle", "Done", "Failed" }
             /\ run[r].exit_code = 0 <=> (run[r].phase = "Done" /\ run[r].returned)
             /\ run[r].exit_code = 1 <=> run[r].phase \in { "Idle", "Failed" }
             /\ run[r].phase = "Failed" => run[r].error.type # "none"
             /\ run[r].error.type = "FileNotFoundError" => run[r].exit_code = 1
        /\ ~ run[r].exited => run[r].exit_code = 0

C14_Witness ==
    /\ \E r \in Runs :
          /\ run[r].exited /\ run[r].exit_code = 0
          /\ csv["communities.csv"] = RefCommunities
          /\ run[r].verification.communities = 1
    /\ \E r \in Runs :
          /\ run[r].exited /\ run[r].exit_code = 1 /\ run[r].phase = "Idle"

\* C15: a row that lacks a mandatory field is dropped when the file is read, and
\* the drop is never fatal: the frame a loader works on, and the rows it stores,
\* have a value in every mandatory field (sector: English name, Arabic name,
\* total population; community: code, English name, sector English name;
\* population: community code, year, population, density).
SectorMandatory == { "sector_name_en", "sector_name_ar", "total_population" }

CommunityMandatory == { "community_code", "name_en", "sector_name_en" }

PopulationMandatory == { "community_code", "year", "population", "density" }

\* What the store raises: a failed call, a rejected statement.
StoreErrors == { "StoreError", "IntegrityError" }

Complete(df, fields) == \A k \in DOMAIN df : \A c \in fields : df[k][c] # NaN

Loading(r, phase) == run[r].phase = phase /\ run[r].step \in { "clear", "insert" }

C15_MandatoryFields ==
    \A r \in Runs :
        /\ Loading(r, "LoadingSectors") => Complete(run[r].df, SectorMandatory)
        /\ Loading(r, "LoadingCommunities") => Complete(run[r].df, CommunityMandatory)
        /\ Loading(r, "LoadingPopulation") => Complete(run[r].df, PopulationMandatory)
        /\ \A s \in Written(r, "sectors", "LoadingSectors") :
              s.name_en # NaN /\ s.name_ar # NaN
        /\ \A c \in Written(r, "communities", "LoadingCommunities") : c.code # NaN
        /\ \A q \in Written(r, "population_data", "LoadingPopulation") : q.year # NaN
        /\ run[r].phase = "Failed" => run[r].error.type \in StoreErrors

\* C16: banner and footer rows reach neither the store nor the mappings: no sector
\* is loaded whose English name contains 'Sector & Community' or 'Distribution',
\* no community row is loaded whose sector name is 'Sector & Community'; the file
\* of 'Sector A' and one banner row loads one sector under the single key 'Sector A'.
HasMarker(name) == Contains(name, BannerLabel) \/ Contains(name, DistributionMarker)

BannerScenario ==
    { << SectorRow(SectorA, << "ar" >>, << "1000" >>), SectorRow(m, << "ar" >>, << "1000" >>) >> :
        m \in { BannerLabel, << "Population", "Distribution" >> } }

C16_BannersExcluded ==
    \A r \in Runs :
        /\ Loading(r, "LoadingSectors") =>
              \A k \in DOMAIN run[r].df : ~ HasMarker(run[r].df[k].sector_name_en)
        /\ \A name \in DOMAIN run[r].sector_mapping : ~ HasMarker(name)
        /\ \A s \in Written(r, "sectors", "LoadingSectors") : ~ HasMarker(s.name_en)
        /\ Loading(r, "LoadingCommunities") =>
              \A k \in DOMAIN run[r].df : run[r].df[k].sector_name_en # BannerLabel
        /\ \A c \in Written(r, "communities", "LoadingCommunities") :
              (c.run = r /\ Loading(r, "LoadingCommunities"))
                 => run[r].df[c.row].sector_name_en # BannerLabel
        /\ ( /\ csv["sectors.csv"] \in BannerScenario
             /\ run[r].phase = "LoadingCommunities" /\ Latest(r) )
           => /\ DOMAIN run[r].sector_mapping = { SectorA }
              /\ Cardinality(db["sectors"]) = 1

C16_Witness ==
    \E r \in Runs :
        /\ csv["sectors.csv"] \in BannerScenario
        /\ csv["sectors.csv"][2].sector_name_en # BannerLabel
        /\ run[r].phase = "LoadingCommunities"
        /\ Cardinality(db["sectors"]) = 1

\* C17: natural keys are unique in one load generation: once the latest run has
\* loaded a table, no two sector rows share an English name and no two community
\* rows share a code, and the size of the mapping, which is the logged count, is
\* the number of rows inserted, also when the file repeats a name or a code.
UniqueIn(rows, column) ==
    \A a, b \in rows : a[column] = b[column] => a = b

C17_NaturalKeysUnique ==
    \A r \in Runs : (Latest(r) /\ ~ run[r].exited) =>
        /\ Completed(r, "LoadingSectors") => UniqueIn(db["sectors"], "name_en")
        /\ Completed(r, "LoadingCommunities") => UniqueIn(db["communities"], "code")
        /\ run[r].phase = "LoadingCommunities"
              => Cardinality(DOMAIN run[r].sector_mapping) = Cardinality(db["sectors"])
        /\ run[r].phase = "LoadingPopulation"
              => Cardinality(DOMAIN run[r].community_mapping)
                    = Cardinality(db["communities"])

\* C20: create_engine_with_retry(max_retries = N >= 1, delay = d) makes at most N
\* attempts, returns at the first attempt that succeeds and makes none after it,
\* sleeps d after each failed attempt but the last (at most N - 1 sleeps), raises
\* after the N-th failure in a row, and always ends.
C20_Counts ==
    /\ boot.attempts <= boot.max_retries
    /\ boot.status # "idle" => boot.waits <= boot.max_retries - 1
    /\ boot.slept = boot.waits * boot.delay
    /\ boot.status = "trying" => boot.waits = boot.attempts
    /\ boot.status = "sleeping"
          => boot.attempts = boot.waits + 1 /\ boot.attempts < boot.max_retries
    /\ boot.status = "returned" => boot.last = "ok"
    /\ Ended => boot.waits = boot.attempts - 1
    /\ boot.status = "raised"
          => /\ boot.last \in { "SQLAlchemyError", "Exception" }
             /\ boot.last = "SQLAlchemyError" => boot.attempts = boot.max_retries
    /\ (boot.attempts = boot.max_retries /\ boot.last # "ok" /\ boot.status # "idle")
          => boot.status = "raised"

C20_BoundedRetry ==
    /\ []C20_Counts
    /\ [][Ended => boot' = boot]_vars
    /\ (boot.status # "idle") ~> Ended

C20_Witness ==
    /\ boot.status = "raised" /\ boot.last = "SQLAlchemyError"
    /\ boot.max_retries = max_retries /\ boot.waits = max_retries - 1
    /\ boot.slept = (max_retries - 1) * delay

\* C18: the loader's connectivity is established by the bounded-retry bootstrap
\* before the first load phase begins: no run is in a load phase unless the
\* bootstrap has returned an engine, and a run fails for a store failure only
\* after the bootstrap has used up its attempts.
LoadPhases == { "LoadingSectors", "LoadingCommunities", "LoadingPopulation" }

C18_BootstrapBeforeLoad ==
    \A r \in Runs :
        /\ run[r].phase \in LoadPhases => boot.status = "returned"
        /\ (run[r].phase = "Failed" /\ run[r].error.type \in StoreErrors)
              => boot.status = "raised" /\ boot.attempts = boot.max_retries

\* C19: a by-name lookup answers 404 exactly when its query succeeded with zero
\* matching rows, 500 exactly when the query or the session raised, and 200
\* otherwise; a 404 raised inside the session block reaches the client as a 404.
Answered == api.response.status # 0

C19_LookupStatus ==
    Answered =>
        /\ api.response.status \in { 200, 404, 500 }
        /\ api.response.status = 404
              <=> (api.response.raised = "-" /\ api.response.rows = 0)
        /\ api.response.status = 500 <=> api.response.raised # "-"
        /\ api.response.status = 200
              <=> (api.response.raised = "-" /\ api.response.rows > 0)

C19_Witness ==
    /\ api.response.status = 404 /\ api.response.raised = "-"
    /\ api.request.endpoint = "get_sector_data" /\ api.request.name = UnknownSector
    /\ db["sectors"] # {}

\* C22: a sector or community load is all-or-nothing for the new rows and does
\* not keep the old ones: after the committed DELETE the table stays empty until
\* the one final commit, which stores every inserted row at once; a load that
\* raises after the DELETE leaves the table empty.
ParentTable(phase) == IF phase = "LoadingSectors" THEN "sectors" ELSE "communities"

Inserting(r) == run[r].phase \in ParentPhases /\ run[r].step = "insert"

C22_Step(r) ==
    /\ ( Inserting(r) /\ run'[r].phase = "Failed" )
          => /\ db'[ParentTable(run[r].phase)] = {}
             /\ db' = db
    /\ ( Inserting(r) /\ run'[r].phase = run[r].phase )
          => db' = db
    /\ ( Inserting(r) /\ run'[r].phase \notin { run[r].phase, "Failed" } )
          => /\ db'[ParentTable(run[r].phase)] = run[r].conn.pending
             /\ run[r].phase = "LoadingSectors"
                   => Cardinality(run[r].conn.pending) = Len(run[r].df)

C22_AllOrNothing ==
    /\ [](\A r \in Runs : Inserting(r) => db[ParentTable(run[r].phase)] = {})
    /\ [][\A r \in Runs : C22_Step(r)]_vars

\* Run 2 raised while inserting sectors after run 1 had loaded its rows.
C22_Witness ==
    /\ MaxRuns >= 2
    /\ run[1].exited /\ run[1].returned
    /\ run[2].phase = "Failed" /\ run[2].error.raised_in = "LoadingSectors"
    /\ run[2].mutations >= 1
    /\ db["sectors"] = {}

\* C21: the loader does not serialize two runs on the same store: a second run
\* can start and delete while the first is anywhere in its load, and there are
\* interleavings that end with rows of both runs in one table, or with a run's
\* mapping naming a parent row the other run deleted.
InProgress(r) == run[r].phase # "Idle" /\ ~ run[r].exited

C21_NotSerialized ==
    \A r \in Racers :
        ( /\ concurrent
          /\ run[r].phase = "Idle" /\ ~ run[r].exited
          /\ \A q \in Racers : q < r => InProgress(q) )
            => ENABLED StartRun(r)

\* Both runs have ended; one of them raised in load_communities because the
\* sector its mapping names had been deleted by the other, after it had emptied
\* the communities the other had loaded: sectors without any community, which
\* no run alone leaves behind.
C21_Witness ==
    /\ \A r \in Racers : run[r].exited
    /\ \E r \in Racers :
          /\ run[r].error.raised_in = "LoadingCommunities"
          /\ run[r].error.type = "StoreError"
          /\ \E q \in Racers \ {r} : run[q].returned
    /\ db["sectors"] # {} /\ db["communities"] = {}

\* Both runs have ended and a table holds rows of both.
C21_BothGenerations ==
    /\ \A r \in Racers : run[r].exited
    /\ \E table \in Tables : \A r \in Racers : \E row \in db[table] : row.run = r

\* C23: a session made by get_db is closed exactly once on every exit path; it
\* is committed only when the block finished without raising, rolled back when
\* the block raised an SQLAlchemyError, and on any other exception (the 404 of an
\* endpoint) closed with neither commit nor rollback, the exception leaving
\* get_db as it is.
C23_SessionScoped ==
    Answered =>
        LET session == api.response.session
            body == api.response.body
        IN  /\ session.opened <=> api.response.raised # "get_db"
            /\ session.closes = IF session.opened THEN 1 ELSE 0
            /\ ~ session.opened => session.commits = 0 /\ session.rollbacks = 0
            /\ session.commits = 1 <=> body = "return"
            /\ session.commits \in { 0, 1 } /\ session.rollbacks \in { 0, 1 }
            /\ body = "SQLAlchemyError"
                  => /\ session.rollbacks = 1
                     /\ api.response.exit = "SQLAlchemyError"
            /\ body = "HTTPException"
                  => /\ session.commits = 0 /\ session.rollbacks = 0
                     /\ api.response.exit = "HTTPException"
            /\ session.rollbacks = 1 => api.response.exit = "SQLAlchemyError"
            /\ api.response.exit = "return" => session.commits = 1

\* A lookup found no row: the session was closed, neither committed nor rolled back.
C23_Witness ==
    /\ api.response.body = "HTTPException"
    /\ api.response.session.closes = 1
    /\ api.response.session.commits = 0 /\ api.response.session.rollbacks = 0
    /\ api.response.status = 404

\* C24: lazy initialisation. Once init_database has succeeded no call of get_db,
\* get_engine or get_session_local runs the bootstrap again; while it has never
\* succeeded every get_db call runs the bootstrap once more and, when that fails
\* too, raises 'Database not initialized' without making a session;
\* init_database returns False and never raises.
Succeeded == api.engine /\ api.SessionLocal

Calling == api.pc = "serving" /\ api'.pc # "down" /\ api' # api

C24_Step ==
    /\ Succeeded => boot' = boot /\ api'.engine /\ api'.SessionLocal
    /\ (Calling /\ ~ Succeeded)
          => /\ boot' = Call(max_retries, delay)
             /\ api'.pc = "init" /\ api'.served = api.served
    /\ (api.pc = "init" /\ api'.pc = "serving")
          => /\ boot.status \in { "returned", "raised" }
             /\ api'.init = IF boot.status = "returned" THEN "True" ELSE "False"
             /\ api'.engine = (boot.status = "returned")
             /\ api'.SessionLocal = (boot.status = "returned")
             /\ (boot.status = "raised" /\ api.request.endpoint \in Endpoints)
                   => /\ api'.response.raised = "get_db"
                      /\ ~ api'.response.session.opened
                      /\ api'.response.status = 500
             /\ (boot.status = "raised" /\ api.request.endpoint \in Getters)
                   => api'.result = "None"
    /\ (api.pc = "startup" /\ api'.pc = "serving")
          => api'.init = IF boot.status = "returned" THEN "True" ELSE "False"

C24_LazyInit ==
    /\ [](api.engine <=> api.SessionLocal)
    /\ [](api.init \in { "-", "True", "False" })
    /\ [](api.init = "True" => Succeeded)
    /\ [][C24_Step]_vars

\* After a failed startup a lookup ran the bootstrap again, which failed too: the
\* lookup was answered without a session and the process serves on.
C24_Witness ==
    /\ api.pc = "serving" /\ api.served >= 1
    /\ api.init = "False" /\ ~ Succeeded
    /\ api.request.endpoint \in Endpoints
    /\ api.response.raised = "get_db" /\ ~ api.response.session.opened
    /\ boot.status = "raised"

====
